---- MODULE Spec2Model ----
(***************************************************************************)
(* The WebAssembly function translator of cranelift-wasm                   *)
(* (src/cranelift-wasm/src/func_translator.rs) as a state machine.         *)
(*                                                                         *)
(* One FuncTranslator (`trans`) is driven through successive calls of      *)
(* translate.  A second translator (`fresh`) is re-created by              *)
(* FuncTranslator::new at the start of every call and is fed the same      *)
(* input and the same Environment answers: it is the "translate B alone    *)
(* with a fresh instance" run the reuse contract compares against.         *)
(*                                                                         *)
(* Sequences are 1-based here; WebAssembly local indices keep the          *)
(* source's 0-based numbering.  Ebb 1 is the entry block and ebb 2 the     *)
(* exit block of every translation.                                        *)
(***************************************************************************)
EXTENDS Integers, Sequences, FiniteSets, TLC

VARIABLES
    trans,   \* the reused FuncTranslator and the translation it is running
    fresh,   \* a FuncTranslator created anew for the current call
    input,   \* arguments of the current call: code, code_offset, func, environ
    calls,   \* number of translate calls started on `trans`
    pre,     \* history: `trans` as it was when the decode loop was left
    left     \* history: `trans` as the previous call left it

vars == <<trans, fresh, input, calls, pre, left>>

----------------------------------------------------------------------------
(* Bounds of the model *)

\* longest operator stream
MaxOps == 4
\* longest signature parameter list
MaxParams == 2
\* most local-declaration groups in one function
MaxGroups == 2
\* longest run length of one local-declaration group
MaxRun == 2
\* translate calls on one FuncTranslator
MaxCalls == 2

\* the identifiers of variables and value labels have IndexBits bits, in
\* place of the 32 of the u32 behind Variable and ValueLabel
IndexBits == 4

----------------------------------------------------------------------------
(* Small helpers *)

Last(s) == s[Len(s)]

Front(s) == SubSeq(s, 1, Len(s) - 1)

\* the last n elements of s (TranslationState::peekn)
peekn(s, n) == SubSeq(s, Len(s) - n + 1, Len(s))

\* s without its last n elements (TranslationState::popn)
popn(s, n) == SubSeq(s, 1, Len(s) - n)

\* s cut to its first n elements (Vec::truncate)
truncate(s, n) == IF Len(s) > n THEN SubSeq(s, 1, n) ELSE s

NoFn == [x \in {} |-> 0]

FnSet(f, k, v) == [x \in (DOMAIN f) \cup {k} |-> IF x = k THEN v ELSE f[x]]

----------------------------------------------------------------------------
(* The arguments of translate: the function code, its offset, the IR       *)
(* function (empty but for its signature) and the Environment.             *)

\* wasmparser::Type values a local declaration may carry; V128 stands for
\* every type declare_locals has no zero constant for
WasmTypes == {"I32", "I64", "F32", "F64", "V128"}

\* ir::ArgumentPurpose values of a signature parameter; StructReturn stands
\* for the special purposes other than the context pointer
Purposes == {"Normal", "VMContext", "StructReturn"}

\* operators of the function body; Bad is a byte no operator starts with
Ops == {"Const", "Block", "Loop", "If", "Else", "Br", "Return", "Unreachable",
        "End", "Bad"}

\* encoded size in bytes of an operator (opcode plus immediate)
OpSize(op) == IF op \in {"Const", "Block", "Loop", "If", "Br"} THEN 2 ELSE 1

\* WasmError values the Environment's hooks may return
HookErrors == {"Unsupported", "ImplLimitExceeded"}

\* ValueLabel::new(local) for a declared local, get_vmctx_value_label() for
\* the context pointer (a label no local index reaches)
LocalLabel(local) == [vmctx |-> FALSE, index |-> local]

\* the identifiers an entity reference can hold
IndexSpace == 2 ^ IndexBits

\* Variable::new and ValueLabel::new in a build without debug assertions:
\* the usize index is cast to the identifier's width
Variable_new(index) == index % IndexSpace

\* their debug assertion: the index is below the largest identifier
Variable_new_asserts(index) == index < IndexSpace - 1

VmctxLabel == [vmctx |-> TRUE, index |-> 0]

\* Byte offsets are kept as 16-bit limbs, least significant first: l2
\* holds the bits a u32 has no room for
Limb == 65536

Offset(l2, l1, l0) == [l0 |-> l0, l1 |-> l1, l2 |-> l2]

\* offset + n for a small n
offset_add(off, n) ==
    LET s0 == off.l0 + n
        s1 == off.l1 + (s0 \div Limb)
    IN [l0 |-> s0 % Limb, l1 |-> s1 % Limb, l2 |-> off.l2 + (s1 \div Limb)]

\* `as u32`: the low 32 bits
as_u32(off) == [l0 |-> off.l0, l1 |-> off.l1]

\* the order of two u32 values
u32_le(a, b) == a.l1 < b.l1 \/ (a.l1 = b.l1 /\ a.l0 <= b.l0)

SourceLoc_default == [l0 |-> 0, l1 |-> 0]

----------------------------------------------------------------------------
(* ir::Function and cranelift_frontend::FunctionBuilder, as far as the     *)
(* driver uses them.  A translation `t` is a record holding the builder    *)
(* (func, func_ctx, position, srcloc), the TranslationState and the        *)
(* locals of translate_from_reader that live across its steps.             *)

\* the caller's ir::Function: empty except for the signature
EmptyFunction(sig) ==
    [signature |-> sig, ebbs |-> <<>>, layout |-> <<>>, val_labels |-> <<>>]

FunctionBuilderContext_new ==
    [types |-> NoFn, defs |-> NoFn, sealed |-> {}, preds |-> NoFn, pristine |-> NoFn]

TranslationState_new ==
    [stack |-> <<>>, control_stack |-> <<>>, reachable |-> TRUE]

ParamValue(ebb, i) == [def |-> "param", ebb |-> ebb, idx |-> i]

ResultValue(ebb, k) == [def |-> "result", ebb |-> ebb, idx |-> k]

Preds(t, ebb) == IF ebb \in DOMAIN t.func_ctx.preds THEN t.func_ctx.preds[ebb] ELSE 0

set_srcloc(t, loc) == [t EXCEPT !.srcloc = loc]

create_ebb(t) ==
    LET ebb == Len(t.func.ebbs) + 1 IN
    [t EXCEPT !.func.ebbs = Append(@, [params |-> <<>>, insts |-> <<>>]),
              !.func_ctx.sealed = @ \ {ebb},
              !.func_ctx.preds = FnSet(@, ebb, 0),
              !.func_ctx.pristine = FnSet(@, ebb, TRUE)]

\* the Ebb create_ebb has just returned
last_ebb(t) == Len(t.func.ebbs)

ebb_params(t, ebb) ==
    [i \in 1..Len(t.func.ebbs[ebb].params) |-> ParamValue(ebb, i)]

append_ebb_params_for_function_params(t, ebb) ==
    [t EXCEPT !.func.ebbs[ebb].params =
        [i \in 1..Len(t.func.signature.params) |-> t.func.signature.params[i].value_type]]

append_ebb_params_for_function_returns(t, ebb) ==
    [t EXCEPT !.func.ebbs[ebb].params = t.func.signature.returns]

switch_to_block(t, ebb) == [t EXCEPT !.position = ebb]

seal_block(t, ebb) == [t EXCEPT !.func_ctx.sealed = @ \cup {ebb}]

InLayout(t, ebb) == \E i \in 1..Len(t.func.layout) : t.func.layout[i] = ebb

ensure_inserted_ebb(t) ==
    IF InLayout(t, t.position) THEN t
    ELSE [t EXCEPT !.func.layout = Append(@, t.position)]

\* builder.ins().<op>(...): append one instruction at the insertion point;
\* a branch or jump makes the current block a predecessor of its target
ins(t, op, ty, imm, args, dest) ==
    LET u == ensure_inserted_ebb(t)
        inst == [op |-> op, ty |-> ty, imm |-> imm, args |-> args,
                 dest |-> dest, srcloc |-> t.srcloc]
    IN [u EXCEPT !.func.ebbs[t.position].insts = Append(@, inst),
                 !.func_ctx.pristine = FnSet(@, t.position, FALSE),
                 !.func_ctx.preds = IF dest = 0 THEN @
                                    ELSE FnSet(@, dest, Preds(t, dest) + 1)]

\* the value defined by the instruction `ins` has just appended
last_result(t) == ResultValue(t.position, Len(t.func.ebbs[t.position].insts))

\* the instruction (or block parameter) defining a value, as [op, ty, imm]
value_def(t, v) ==
    IF v.def = "param"
    THEN [op |-> "param", ty |-> t.func.ebbs[v.ebb].params[v.idx], imm |-> 0]
    ELSE LET i == t.func.ebbs[v.ebb].insts[v.idx]
         IN [op |-> i.op, ty |-> i.ty, imm |-> i.imm]

value_type(t, v) == value_def(t, v).ty

declare_var(t, var, ty) ==
    [t EXCEPT !.func_ctx.types = FnSet(@, var, ty),
              !.decl_log = Append(@, [var |-> var, ty |-> ty])]

def_var(t, var, val) == [t EXCEPT !.func_ctx.defs = FnSet(@, var, val)]

set_val_label(t, val, label) ==
    [t EXCEPT !.func.val_labels =
        Append(@, [value |-> val, label |-> label, from |-> t.srcloc])]

is_pristine(t) == t.func_ctx.pristine[t.position]

\* the insertion point is in a sealed block without predecessors that is
\* not the entry block
is_unreachable(t) ==
    LET is_entry == Len(t.func.layout) > 0 /\ t.func.layout[1] = t.position
    IN ~is_entry /\ t.position \in t.func_ctx.sealed /\ Preds(t, t.position) = 0

\* FunctionBuilder::new: the function of the caller and the cleared context
FunctionBuilder_new(t, func) ==
    [t EXCEPT !.func = func, !.func_ctx = FunctionBuilderContext_new,
              !.position = 0, !.srcloc = SourceLoc_default]

----------------------------------------------------------------------------
(* TranslationState (crate::state) *)

Frame(kind, destination, header, nret, stack_size) ==
    [kind |-> kind, destination |-> destination, header |-> header,
     num_return_values |-> nret, original_stack_size |-> stack_size,
     exit_is_branched_to |-> FALSE,
     branch_inst |-> [ebb |-> 0, idx |-> 0], reachable_from_top |-> FALSE]

following_code(frame) == frame.destination

br_destination(frame) == IF frame.kind = "Loop" THEN frame.header ELSE frame.destination

\* TranslationState::initialize: an empty value stack, one control frame for
\* the whole function whose merge point is the exit block, reachable
initialize(state, sig, exit_block) ==
    [stack |-> <<>>,
     control_stack |-> <<Frame("Block", exit_block, 0, Len(sig.returns), 0)>>,
     reachable |-> TRUE]

----------------------------------------------------------------------------
(* The reader (wasmparser::BinaryReader) over the code of the call *)

\* cur_srcloc: the offset in the enclosing file, as a u32
original_position(in, t) == offset_add(in.code_offset, t.reader.pos)

\* the offset in the code, not in the file
cur_srcloc_in_code(in, t) == as_u32(offset_add(Offset(0, 0, 0), t.reader.pos))

\* lines 240-244
cur_srcloc(in, t) == as_u32(original_position(in, t))

\* total encoded size of the code
RECURSIVE OpsSize(_)
OpsSize(ops) == IF ops = <<>> THEN 0 ELSE OpSize(Head(ops)) + OpsSize(Tail(ops))

CodeSize(code) ==
    IF code.empty THEN 0
    ELSE 1 + 2 * Len(code.decls) + OpsSize(code.ops)

reader_eof(in, t) == t.reader.pos >= CodeSize(in.code)


----------------------------------------------------------------------------
(* Bookkeeping of one translation *)

\* history: one entry per step the driver takes, with its outcome and the
\* depth of the control stack when the step began
logged(t, ev, op, err) ==
    [t EXCEPT !.log = Append(@, [ev |-> ev, op |-> op, err |-> err,
                                 depth |-> Len(t.state.control_stack),
                                 srcloc |-> t.srcloc])]

\* a step of the setup of a call, with the translation as the step leaves it
did(t, step) == [step |-> step, t |-> t]

\* `?` on an Err: translate returns the error at once
fail(t, ev, op, err) ==
    [logged(t, ev, op, err) EXCEPT !.pc = "error", !.result = err]

\* a failed debug assertion or an index out of bounds
panic(t, ev) ==
    [logged(t, ev, "-", "panic") EXCEPT !.pc = "panic", !.result = "panic"]

FuncTranslator_new ==
    [pc |-> "idle", result |-> "none",
     func |-> EmptyFunction([params |-> <<>>, returns |-> <<>>]),
     func_ctx |-> FunctionBuilderContext_new,
     state |-> TranslationState_new,
     position |-> 0, srcloc |-> SourceLoc_default,
     reader |-> [pos |-> 0, idx |-> 0],
     num_params |-> 0, next_local |-> 0, groups_left |-> 0, locals_total |-> 0,
     log |-> <<>>, decl_log |-> <<>>, finalized |-> FALSE]

----------------------------------------------------------------------------
(* translate_from_reader, lines 76-104: blocks, parameters, state *)

\* the block parameter is looked up by the number of the local
RECURSIVE declare_wasm_parameters_by_local(_, _, _)
declare_wasm_parameters_by_local(t, entry_block, i) ==
    IF i > Len(t.func.signature.params) THEN t
    ELSE
      LET param_type == t.func.signature.params[i]
          param_value == ebb_params(t, entry_block)[t.next_local + 1]
          local == Variable_new(t.next_local)
          t1 == IF param_type.purpose = "Normal"
                THEN def_var([declare_var(t, local, param_type.value_type)
                                 EXCEPT !.next_local = @ + 1],
                             local, param_value)
                ELSE t
          t2 == IF param_type.purpose = "VMContext"
                THEN set_val_label(t1, ebb_params(t, entry_block)[i], VmctxLabel)
                ELSE t1
      IN declare_wasm_parameters_by_local(t2, entry_block, i + 1)

RECURSIVE declare_wasm_parameters_from(_, _, _)
declare_wasm_parameters_from(t, entry_block, i) ==
    IF i > Len(t.func.signature.params) THEN t
    ELSE
      LET param_type == t.func.signature.params[i]
          param_value == ebb_params(t, entry_block)[i]
          local == Variable_new(t.next_local)
          t1 == IF param_type.purpose = "Normal"
                THEN def_var([declare_var(t, local, param_type.value_type)
                                 EXCEPT !.next_local = @ + 1],
                             local, param_value)
                ELSE t
          t2 == IF param_type.purpose = "VMContext"
                THEN set_val_label(t1, param_value, VmctxLabel)
                ELSE t1
      IN declare_wasm_parameters_from(t2, entry_block, i + 1)

\* returns the translation with num_params = the number of locals declared
declare_wasm_parameters(t, entry_block) ==
    LET u == declare_wasm_parameters_from([t EXCEPT !.next_local = 0], entry_block, 1)
    IN [u EXCEPT !.num_params = u.next_local]

\* the frame of the function is pushed on whatever the state still holds
setup_state_kept(t, exit_block) ==
    [t EXCEPT !.state.control_stack =
                 Append(@, Frame("Block", exit_block, 0, Len(t.func.signature.returns),
                                 Len(t.state.stack)))]

\* the function-body frame merges at the current block, not at the exit block
setup_state_merges_at_entry(t, exit_block) ==
    [t EXCEPT !.state = initialize(t.state, t.func.signature, t.position)]

\* line 104
setup_state(t, exit_block) ==
    [t EXCEPT !.state = initialize(t.state, t.func.signature, exit_block)]

\* the entry block is sealed only after the parameters have been bound
translate_from_reader_steps_sealed_late(t, in) ==
    LET t0 == [t EXCEPT !.reader = [pos |-> 0, idx |-> 0], !.result = "none",
                        !.log = <<>>, !.decl_log = <<>>, !.finalized = FALSE,
                        !.groups_left = 0, !.locals_total = 0]
        b1 == FunctionBuilder_new(t0, in.func)
        b2 == set_srcloc(b1, cur_srcloc(in, b1))
        b3 == create_ebb(b2)
        entry_block == last_ebb(b3)
        b4 == append_ebb_params_for_function_params(b3, entry_block)
        b5 == switch_to_block(b4, entry_block)
        b6 == ensure_inserted_ebb(b5)
        b7 == declare_wasm_parameters(b6, entry_block)
        b8 == seal_block(b7, entry_block)
        b9 == create_ebb(b8)
        exit_block == last_ebb(b9)
        b10 == append_ebb_params_for_function_returns(b9, exit_block)
        b11 == setup_state(b10, exit_block)
    IN <<did(b1, "FunctionBuilder::new"), did(b2, "set_srcloc"), did(b3, "create_ebb"),
         did(b4, "append_ebb_params_for_function_params"), did(b5, "switch_to_block"),
         did(b6, "ensure_inserted_ebb"), did(b7, "declare_wasm_parameters"),
         did(b8, "seal_block"), did(b9, "create_ebb"),
         did(b10, "append_ebb_params_for_function_returns"), did(b11, "initialize")>>

\* lines 86-104, step by step
translate_from_reader_steps(t, in) ==
    LET t0 == [t EXCEPT !.reader = [pos |-> 0, idx |-> 0], !.result = "none",
                        !.log = <<>>, !.decl_log = <<>>, !.finalized = FALSE,
                        !.groups_left = 0, !.locals_total = 0]
        b1 == FunctionBuilder_new(t0, in.func)
        b2 == set_srcloc(b1, cur_srcloc(in, b1))
        b3 == create_ebb(b2)
        entry_block == last_ebb(b3)
        b4 == append_ebb_params_for_function_params(b3, entry_block)
        b5 == switch_to_block(b4, entry_block)
        b6 == seal_block(b5, entry_block)
        b7 == ensure_inserted_ebb(b6)
        b8 == declare_wasm_parameters(b7, entry_block)
        b9 == create_ebb(b8)
        exit_block == last_ebb(b9)
        b10 == append_ebb_params_for_function_returns(b9, exit_block)
        b11 == setup_state(b10, exit_block)
    IN <<did(b1, "FunctionBuilder::new"), did(b2, "set_srcloc"), did(b3, "create_ebb"),
         did(b4, "append_ebb_params_for_function_params"), did(b5, "switch_to_block"),
         did(b6, "seal_block"), did(b7, "ensure_inserted_ebb"),
         did(b8, "declare_wasm_parameters"), did(b9, "create_ebb"),
         did(b10, "append_ebb_params_for_function_returns"), did(b11, "initialize")>>

\* lines 70-104
translate_from_reader_setup(t, in) ==
    [Last(translate_from_reader_steps(t, in)).t EXCEPT !.pc = "parse_local_decls"]

----------------------------------------------------------------------------
(* parse_function_body, line 204: the assertion on entry *)

parse_function_body_entry(t, debug) ==
    IF debug /\ Len(t.state.control_stack) # 1
    THEN panic(t, "State not initialized")
    ELSE [t EXCEPT !.pc = "loop"]

----------------------------------------------------------------------------
(* parse_local_decls and declare_locals *)

\* the 64-bit integer zero is built in the 32-bit type
zeroval_narrow(wasm_type) ==
    CASE wasm_type = "I32" -> [op |-> "iconst", ty |-> "i32", imm |-> 0]
      [] wasm_type = "I64" -> [op |-> "iconst", ty |-> "i32", imm |-> 0]
      [] wasm_type = "F32" -> [op |-> "f32const", ty |-> "f32", imm |-> 0]
      [] wasm_type = "F64" -> [op |-> "f64const", ty |-> "f64", imm |-> 0]
      [] OTHER -> [op |-> "unsupported", ty |-> "-", imm |-> 0]

\* lines 174-180: the zero constant of a local's type, or "unsupported"
zeroval(wasm_type) ==
    CASE wasm_type = "I32" -> [op |-> "iconst", ty |-> "i32", imm |-> 0]
      [] wasm_type = "I64" -> [op |-> "iconst", ty |-> "i64", imm |-> 0]
      [] wasm_type = "F32" -> [op |-> "f32const", ty |-> "f32", imm |-> 0]
      [] wasm_type = "F64" -> [op |-> "f64const", ty |-> "f64", imm |-> 0]
      [] OTHER -> [op |-> "unsupported", ty |-> "-", imm |-> 0]

RECURSIVE declare_locals_from(_, _, _, _)
declare_locals_from(t, n, ty, val) ==
    IF n = 0 THEN t
    ELSE LET local == Variable_new(t.next_local)
             t1 == declare_var(t, local, ty)
             t2 == def_var(t1, local, val)
             t3 == set_val_label(t2, val, LocalLabel(local))
         IN declare_locals_from([t3 EXCEPT !.next_local = @ + 1], n - 1, ty, val)

\* the locals of one group; callers test declare_locals_err first
declare_locals(t, count, wasm_type) ==
    LET z == zeroval(wasm_type)
        t1 == ins(t, z.op, z.ty, z.imm, <<>>, 0)
        val == last_result(t1)
        ty == value_type(t1, val)
    IN declare_locals_from(t1, count, ty, val)

\* how many of the count locals of a group line 185 creates before the
\* debug assertion of Variable::new fails: all of them, if it never does
declare_locals_fit(t, count) ==
    LET bad == {k \in 0..(count - 1) : ~Variable_new_asserts(t.next_local + k)}
    IN IF bad = {} THEN count
       ELSE CHOOSE k \in bad : \A j \in bad : k <= j

\* every type is taken for a type that has a zero constant
declare_locals_err_none(wasm_type) == "ok"

\* line 179
declare_locals_err(wasm_type) ==
    IF zeroval(wasm_type).op = "unsupported" THEN "Unsupported" ELSE "ok"

\* the declared locals are numbered from zero again
first_local_zero(t) == 0

\* line 150: the index of the first declared local
first_local(t) == t.num_params

\* lines 150-153, and the for loop left at once when there is no group
read_local_count(t, in, debug) ==
    IF in.code.empty
    THEN fail(t, "read_local_count", "-", "InvalidWebAssembly")
    ELSE LET t1 == [logged(t, "read_local_count", "-", "ok")
                      EXCEPT !.reader.pos = @ + 1,
                             !.next_local = first_local(t),
                             !.groups_left = in.code.local_count,
                             !.locals_total = 0]
         IN IF t1.groups_left = 0
            THEN parse_function_body_entry(t1, debug)
            ELSE [t1 EXCEPT !.pc = "local_decl"]

\* one round of the for loop, lines 155-157
parse_local_decls_iteration(t, in, debug) ==
    LET k == in.code.local_count - t.groups_left + 1
        t1 == logged(set_srcloc(t, cur_srcloc(in, t)), "set_srcloc", "-", "ok")
    IN IF k > Len(in.code.decls)
       THEN fail(t1, "read_local_decl", "-", "InvalidWebAssembly")
       ELSE
         LET decl == in.code.decls[k]
             t2 == [logged(t1, "read_local_decl", decl.ty, "ok")
                      EXCEPT !.reader.pos = @ + 2,
                             !.locals_total = @ + decl.count]
         IN IF declare_locals_err(decl.ty) # "ok"
            THEN fail(t2, "declare_locals", decl.ty, declare_locals_err(decl.ty))
            ELSE
              LET fit == declare_locals_fit(t2, decl.count)
                  t3 == [logged(declare_locals(t2, decl.count, decl.ty),
                                "declare_locals", decl.ty, "ok")
                           EXCEPT !.groups_left = @ - 1]
              IN IF debug /\ fit < decl.count
                 THEN panic(declare_locals(t2, fit, decl.ty), "Variable::new")
                 ELSE IF t3.groups_left = 0
                 THEN parse_function_body_entry(t3, debug)
                 ELSE t3


----------------------------------------------------------------------------
(* The Operator Translator (crate::code_translator::translate_operator).   *)
(* Block types are empty: a block, loop or conditional yields no value.    *)

push_frame(t, frame) == [t EXCEPT !.state.control_stack = Append(@, frame)]

top_frame(t) == Last(t.state.control_stack)

\* FunctionBuilder::change_jump_destination
change_jump_destination(t, inst, new_dest) ==
    LET old_dest == t.func.ebbs[inst.ebb].insts[inst.idx].dest IN
    [t EXCEPT !.func.ebbs[inst.ebb].insts[inst.idx].dest = new_dest,
              !.func_ctx.preds =
                  FnSet(FnSet(@, old_dest, Preds(t, old_dest) - 1),
                        new_dest, Preds(t, new_dest) + 1)]

\* operand values an operator takes from the value stack
operands_needed(t, op, env) ==
    CASE op = "If" -> 1
      [] op = "Else" -> top_frame(t).num_return_values
      [] op = "Br" -> IF top_frame(t).kind = "Loop" THEN 0
                      ELSE top_frame(t).num_return_values
      [] op = "Return" -> t.state.control_stack[1].num_return_values
      [] op = "End" -> IF ~is_unreachable(t) \/ ~is_pristine(t)
                       THEN top_frame(t).num_return_values ELSE 0
      [] OTHER -> 0

\* the structural mismatches the translator reports
translate_operator_err(t, op, env) ==
    IF ~t.state.reachable THEN "ok"
    ELSE IF op = "Else" /\ top_frame(t).kind # "If" THEN "InvalidWebAssembly"
    ELSE IF Len(t.state.stack) < operands_needed(t, op, env) THEN "InvalidWebAssembly"
    ELSE "ok"

translate_end(t) ==
    LET frame == top_frame(t)
        t1 == [t EXCEPT !.state.control_stack = Front(@)]
        t2 == IF ~is_unreachable(t1) \/ ~is_pristine(t1)
              THEN ins(t1, "jump", "-", 0,
                       peekn(t1.state.stack, frame.num_return_values),
                       following_code(frame))
              ELSE t1
        t3 == seal_block(switch_to_block(t2, following_code(frame)),
                         following_code(frame))
        t4 == IF frame.kind = "Loop" THEN seal_block(t3, frame.header) ELSE t3
    IN [t4 EXCEPT !.state.stack =
            truncate(@, frame.original_stack_size)
                \o ebb_params(t4, following_code(frame))]

translate_else(t) ==
    LET i == Len(t.state.control_stack)
        frame == t.state.control_stack[i]
        t1 == [t EXCEPT !.state.control_stack[i].reachable_from_top = FALSE]
        t2 == ins(t1, "jump", "-", 0,
                  peekn(t1.state.stack, frame.num_return_values), frame.destination)
        t3 == [t2 EXCEPT !.state.stack = popn(@, frame.num_return_values)]
        t4 == create_ebb(t3)
        else_ebb == last_ebb(t4)
        t5 == change_jump_destination(t4, frame.branch_inst, else_ebb)
    IN switch_to_block(seal_block(t5, else_ebb), else_ebb)

translate_br(t) ==
    LET i == Len(t.state.control_stack)
        frame == t.state.control_stack[i]
        return_count == IF frame.kind = "Loop" THEN 0 ELSE frame.num_return_values
        t1 == [t EXCEPT !.state.control_stack[i].exit_is_branched_to = TRUE]
        t2 == ins(t1, "jump", "-", 0, peekn(t1.state.stack, return_count),
                  br_destination(frame))
    IN [t2 EXCEPT !.state.stack = popn(@, return_count),
                  !.state.reachable = FALSE]

translate_return(t, env) ==
    LET frame == t.state.control_stack[1]
        return_count == frame.num_return_values
        args == peekn(t.state.stack, return_count)
        t1 == [t EXCEPT !.state.control_stack[1].exit_is_branched_to = TRUE]
        t2 == IF env.return_mode = "NormalReturns"
              THEN ins(t1, "return", "-", 0, args, 0)
              ELSE ins(t1, "jump", "-", 0, args, br_destination(frame))
    IN [t2 EXCEPT !.state.stack = popn(@, return_count),
                  !.state.reachable = FALSE]

translate_reachable_operator(t, op, env) ==
    CASE op = "Const" ->
           LET t1 == ins(t, "iconst", "i32", 1, <<>>, 0)
           IN [t1 EXCEPT !.state.stack = Append(@, last_result(t1))]
      [] op = "Block" ->
           LET t1 == create_ebb(t)
           IN push_frame(t1, Frame("Block", last_ebb(t1), 0, 0, Len(t.state.stack)))
      [] op = "Loop" ->
           LET t1 == create_ebb(t)
               loop_body == last_ebb(t1)
               t2 == create_ebb(t1)
               next == last_ebb(t2)
               t3 == ins(t2, "jump", "-", 0, <<>>, loop_body)
               t4 == push_frame(t3, Frame("Loop", next, loop_body, 0, Len(t.state.stack)))
           IN switch_to_block(t4, loop_body)
      [] op = "If" ->
           LET val == Last(t.state.stack)
               t1 == [t EXCEPT !.state.stack = Front(@)]
               t2 == create_ebb(t1)
               if_not == last_ebb(t2)
               t3 == ins(t2, "brz", "-", 0, <<val>>, if_not)
               jump_inst == [ebb |-> t3.position,
                             idx |-> Len(t3.func.ebbs[t3.position].insts)]
           IN push_frame(t3, [Frame("If", if_not, 0, 0, Len(t1.state.stack))
                                EXCEPT !.branch_inst = jump_inst,
                                       !.reachable_from_top = TRUE])
      [] op = "Else" -> translate_else(t)
      [] op = "Br" -> translate_br(t)
      [] op = "Return" -> translate_return(t, env)
      [] op = "Unreachable" ->
           [ins(t, "trap", "-", 0, <<>>, 0) EXCEPT !.state.reachable = FALSE]
      [] op = "End" -> translate_end(t)
      [] OTHER -> t

translate_unreachable_operator(t, op) ==
    CASE op = "If" -> push_frame(t, Frame("If", 0, 0, 0, Len(t.state.stack)))
      [] op \in {"Block", "Loop"} ->
           push_frame(t, Frame("Block", 0, 0, 0, Len(t.state.stack)))
      [] op = "Else" ->
           LET i == Len(t.state.control_stack)
               frame == t.state.control_stack[i]
           IN IF frame.kind = "If" /\ frame.reachable_from_top
              THEN LET t1 == [t EXCEPT !.state.reachable = TRUE,
                                !.state.control_stack[i].reachable_from_top = FALSE]
                       t2 == create_ebb(t1)
                       else_ebb == last_ebb(t2)
                       t3 == change_jump_destination(t2, frame.branch_inst, else_ebb)
                   IN switch_to_block(seal_block(t3, else_ebb), else_ebb)
              ELSE t
      [] op = "End" ->
           LET frame == top_frame(t)
               t1 == [t EXCEPT !.state.control_stack = Front(@),
                               !.state.stack = truncate(@, frame.original_stack_size)]
               t2 == IF frame.kind = "Loop" THEN seal_block(t1, frame.header) ELSE t1
               reachable_anyway == frame.kind = "If" /\ frame.reachable_from_top
           IN IF frame.exit_is_branched_to \/ reachable_anyway
              THEN LET t3 == seal_block(switch_to_block(t2, following_code(frame)),
                                        following_code(frame))
                   IN [t3 EXCEPT !.state.stack =
                                     @ \o ebb_params(t3, following_code(frame)),
                                 !.state.reachable = TRUE]
              ELSE t2
      [] OTHER -> t

translate_operator(t, op, env) ==
    IF t.state.reachable
    THEN translate_reachable_operator(t, op, env)
    ELSE translate_unreachable_operator(t, op)

----------------------------------------------------------------------------
(* parse_function_body: the decode loop and what follows it *)

\* a loop that stops one frame early
loop_continues_early(t) == Len(t.state.control_stack) > 1

\* line 207: the condition of the while loop
loop_continues(t) == t.state.control_stack # <<>>

\* reader.read_operator(): the next operator, or "eof" at the end of the code
next_operator(t, in) ==
    IF t.reader.idx + 1 > Len(in.code.ops) THEN "eof"
    ELSE in.code.ops[t.reader.idx + 1]

\* line 208
record_srcloc(t, in) ==
    logged(set_srcloc(t, cur_srcloc(in, t)), "set_srcloc", "-", "ok")

\* line 209: decode one operator and advance, or fail
read_operator(t, in) ==
    LET op == next_operator(t, in) IN
    IF op \in {"eof", "Bad"}
    THEN fail(t, "read_operator", op, "InvalidWebAssembly")
    ELSE [logged(t, "read_operator", op, "ok")
            EXCEPT !.reader.idx = @ + 1, !.reader.pos = @ + OpSize(op)]

\* the result of the hook is dropped instead of propagated
before_translate_operator_ignored(t, op, hb) ==
    logged(t, "before_translate_operator", op, hb)

\* line 210: the hook returns hb
before_translate_operator(t, op, hb) ==
    IF hb # "ok" THEN fail(t, "before_translate_operator", op, hb)
    ELSE logged(t, "before_translate_operator", op, "ok")

\* line 211
call_translate_operator(t, op, env) ==
    LET e == translate_operator_err(t, op, env) IN
    IF e # "ok" THEN fail(t, "translate_operator", op, e)
    ELSE translate_operator(logged(t, "translate_operator", op, "ok"), op, env)

\* the hook is skipped for the operator that empties the control stack
after_translate_operator_not_last(t, op, ha) ==
    IF t.state.control_stack = <<>> THEN t
    ELSE IF ha # "ok" THEN fail(t, "after_translate_operator", op, ha)
    ELSE logged(t, "after_translate_operator", op, "ok")

\* line 212: the hook returns ha
after_translate_operator(t, op, ha) ==
    IF ha # "ok" THEN fail(t, "after_translate_operator", op, ha)
    ELSE logged(t, "after_translate_operator", op, "ok")

\* a decode error is swallowed and the round tried again
parse_function_body_iteration_retried(t, in, hb, ha) ==
    LET op == next_operator(t, in)
        t2 == read_operator(record_srcloc(t, in), in)
    IN IF t2.pc # "loop" THEN t
       ELSE LET t3 == before_translate_operator(t2, op, hb)
            IN IF t3.pc # "loop" THEN t3
               ELSE LET t4 == call_translate_operator(t3, op, in.environ)
                    IN IF t4.pc # "loop" THEN t4
                       ELSE after_translate_operator(t4, op, ha)

\* one round of the while loop, lines 208-212; hb and ha are what the
\* Environment's before and after hooks return to this round
parse_function_body_iteration(t, in, hb, ha) ==
    LET op == next_operator(t, in)
        t2 == read_operator(record_srcloc(t, in), in)
    IN IF t2.pc # "loop" THEN t2
       ELSE LET t3 == before_translate_operator(t2, op, hb)
            IN IF t3.pc # "loop" THEN t3
               ELSE LET t4 == call_translate_operator(t3, op, in.environ)
                    IN IF t4.pc # "loop" THEN t4
                       ELSE after_translate_operator(t4, op, ha)

\* the test whether any predecessor reaches the current block is left out
implicit_return_unchecked(t, in) ==
    IF t.state.reachable
    THEN IF in.environ.return_mode = "NormalReturns"
         THEN ins(t, "return", "-", 0, t.state.stack, 0)
         ELSE ins(t, "fallthrough_return", "-", 0, t.state.stack, 0)
    ELSE t

\* the two return modes are taken for each other
implicit_return_swapped(t, in) ==
    IF t.state.reachable /\ ~is_unreachable(t)
    THEN IF in.environ.return_mode = "NormalReturns"
         THEN ins(t, "fallthrough_return", "-", 0, t.state.stack, 0)
         ELSE ins(t, "return", "-", 0, t.state.stack, 0)
    ELSE t

\* lines 220-228: the implicit return
implicit_return(t, in) ==
    IF t.state.reachable /\ ~is_unreachable(t)
    THEN IF in.environ.return_mode = "NormalReturns"
         THEN ins(t, "return", "-", 0, t.state.stack, 0)
         ELSE ins(t, "fallthrough_return", "-", 0, t.state.stack, 0)
    ELSE t

\* the value stack is left as the translation left it
parse_function_body_exit_stack_kept(t, in, debug) ==
    IF debug /\ t.state.reachable /\ ~is_pristine(t)
    THEN panic(t, "builder.is_pristine()")
    ELSE
      LET t1 == logged(implicit_return(t, in), "finalizer", "-", "ok")
      IN IF debug /\ ~reader_eof(in, t1)
         THEN panic(t1, "reader.eof()")
         ELSE [logged(t1, "builder.finalize", "-", "ok")
                 EXCEPT !.finalized = TRUE, !.pc = "done", !.result = "Ok"]

\* lines 215-236 of parse_function_body, then lines 109-110 of
\* translate_from_reader
parse_function_body_exit(t, in, debug) ==
    IF debug /\ t.state.reachable /\ ~is_pristine(t)
    THEN panic(t, "builder.is_pristine()")
    ELSE
      LET t1 == logged(implicit_return(t, in), "finalizer", "-", "ok")
          t2 == [t1 EXCEPT !.state.stack = <<>>]
      IN IF debug /\ ~reader_eof(in, t2)
         THEN panic(t2, "reader.eof()")
         ELSE [logged(t2, "builder.finalize", "-", "ok")
                 EXCEPT !.finalized = TRUE, !.pc = "done", !.result = "Ok"]

----------------------------------------------------------------------------
(* The state machine *)

HookResults == {"ok"} \cup HookErrors

\* the after hook is asked only when the before hook let the round go on
AfterResults(hb) == IF hb = "ok" THEN HookResults ELSE {"ok"}

\* what a translation does next, whatever step it is at
Step(t, in, hb, ha, debug) ==
    CASE t.pc = "parse_local_decls" -> read_local_count(t, in, debug)
      [] t.pc = "local_decl" -> parse_local_decls_iteration(t, in, debug)
      [] t.pc = "loop" /\ loop_continues(t) -> parse_function_body_iteration(t, in, hb, ha)
      [] t.pc = "loop" /\ ~loop_continues(t) -> parse_function_body_exit(t, in, debug)
      [] OTHER -> t

Returned(t) == t.pc \in {"idle", "done", "error"}


----------------------------------------------------------------------------
(* Inputs of translate *)

\* all sequences over S of length at most n
SeqsUpTo(S, n) == UNION {[1..k -> S] : k \in 0..n}

ParamKinds ==
    {[purpose |-> "Normal", value_type |-> "i32"],
     [purpose |-> "Normal", value_type |-> "f64"],
     [purpose |-> "VMContext", value_type |-> "i64"],
     [purpose |-> "StructReturn", value_type |-> "i64"]}

Returns == {<<>>, <<"i32">>}

ReturnModes == {"NormalReturns", "FallthroughReturn"}

Signature(params, returns) == [params |-> params, returns |-> returns]

Code(empty, local_count, decls, ops) ==
    [empty |-> empty, local_count |-> local_count, decls |-> decls, ops |-> ops]

Call(code, code_offset, sig, return_mode) ==
    [code |-> code, code_offset |-> code_offset, func |-> EmptyFunction(sig),
     environ |-> [return_mode |-> return_mode]]

\* the operators every stream up to MaxOps is built from
CoreOps == {"Const", "Block", "Loop", "If", "Br", "Return", "End"}

\* further streams: conditionals with an else arm, traps, code after an
\* endless loop, undecodable bytes, and bytes after the end of the function
\* body
ExtraStreams ==
    {<<"Unreachable", "End">>,
     <<"Const", "Unreachable", "End">>,
     <<"Const", "If", "Unreachable", "End", "End">>,
     <<"Block", "Unreachable", "End", "Const", "End">>,
     <<"Loop", "Br", "End", "Const", "End">>,
     <<"Const", "If", "Else", "End", "End">>,
     <<"Const", "If", "Const", "Else", "Const", "End", "End">>,
     <<"Const", "If", "Return", "Else", "End", "End">>,
     <<"Const", "If", "Br", "Else", "End", "Const", "End">>,
     <<"Const", "If", "Block", "Else", "End", "End", "End">>,
     <<"Const", "If", "Else", "Else", "End", "End">>,
     <<"Block", "Else", "End", "End">>,
     <<"Bad">>,
     <<"Const", "Bad", "End">>,
     <<"Block", "Return", "Bad", "End", "End">>,
     <<"Loop", "Br", "End", "End", "Bad">>,
     <<"Const", "End", "Const", "Bad">>}

NoOffset == Offset(0, 0, 0)

\* functions without parameters and locals: every stream of core operators
\* up to MaxOps, and the further streams
BodyInputs ==
    {Call(Code(FALSE, 0, <<>>, ops), NoOffset, Signature(<<>>, r), m) :
        ops \in SeqsUpTo(CoreOps, MaxOps) \cup ExtraStreams,
        r \in Returns, m \in ReturnModes}

LocalDecls == [count : 0..MaxRun, ty : WasmTypes]

AllParams == SeqsUpTo(ParamKinds, MaxParams)

AllDecls == SeqsUpTo(LocalDecls, MaxGroups)

SomeParams ==
    {<<>>, <<[purpose |-> "VMContext", value_type |-> "i64"],
             [purpose |-> "Normal", value_type |-> "i32"]>>}

SomeDecls == {<<>>, <<[count |-> 2, ty |-> "I64"], [count |-> 1, ty |-> "F32"]>>}

\* functions whose body is a lone `end`: every signature with some local
\* declarations, and some signatures with every local declaration, under a
\* local count that matches the groups present (more = 0) or announces one
\* group more than the code holds (more = 1)
LocalsInputs ==
    {Call(Code(FALSE, n, decls, <<"End">>), NoOffset, Signature(params, <<>>), "NormalReturns") :
        n \in {0, 2}, decls \in SomeDecls, params \in AllParams}
    \cup
    {Call(Code(FALSE, Len(decls) + more, decls, <<"End">>), NoOffset,
          Signature(params, <<>>), "NormalReturns") :
        decls \in AllDecls, more \in {0, 1}, params \in SomeParams}

\* the empty code slice
EmptyInputs ==
    {Call(Code(TRUE, 0, <<>>, <<>>), NoOffset, Signature(<<>>, <<>>), "NormalReturns")}

Inputs == BodyInputs \cup LocalsInputs \cup EmptyInputs

----------------------------------------------------------------------------
(* Actions *)

Init ==
    /\ trans = FuncTranslator_new
    /\ fresh = FuncTranslator_new
    /\ input \in EmptyInputs
    /\ calls = 0
    /\ pre = FuncTranslator_new
    /\ left = FuncTranslator_new

\* translate is called: lines 55-104
Translate(in) ==
    /\ input' = in
    /\ calls' = calls + 1
    /\ trans' = translate_from_reader_setup(trans, in)
    /\ fresh' = translate_from_reader_setup(FuncTranslator_new, in)
    /\ pre' = FuncTranslator_new
    /\ left' = trans

ReadLocalCount(debug) ==
    /\ trans.pc = "parse_local_decls"
    /\ trans' = read_local_count(trans, input, debug)
    /\ fresh' = Step(fresh, input, "ok", "ok", debug)
    /\ UNCHANGED <<input, calls, pre, left>>

ParseLocalDecl(debug) ==
    /\ trans.pc = "local_decl"
    /\ trans' = parse_local_decls_iteration(trans, input, debug)
    /\ fresh' = Step(fresh, input, "ok", "ok", debug)
    /\ UNCHANGED <<input, calls, pre, left>>

\* one round of the decode loop; the hooks answer hb and ha
TranslateOperator(hb, ha) ==
    /\ trans.pc = "loop"
    /\ loop_continues(trans)
    /\ trans' = parse_function_body_iteration(trans, input, hb, ha)
    /\ fresh' = Step(fresh, input, hb, ha, TRUE)
    /\ UNCHANGED <<input, calls, pre, left>>

\* the loop is left and the function finished; debug says whether the
\* build checks debug assertions
Finish(debug) ==
    /\ trans.pc = "loop"
    /\ ~loop_continues(trans)
    /\ trans' = parse_function_body_exit(trans, input, debug)
    /\ fresh' = Step(fresh, input, "ok", "ok", debug)
    /\ pre' = trans
    /\ UNCHANGED <<input, calls, left>>

Next ==
    \/ Returned(trans) /\ calls < 1 /\ \E in \in Inputs : Translate(in)
    \/ \E debug \in BOOLEAN : ReadLocalCount(debug)
    \/ \E debug \in BOOLEAN : ParseLocalDecl(debug)
    \/ \E hb \in HookResults : \E ha \in AfterResults(hb) : TranslateOperator(hb, ha)
    \/ \E debug \in BOOLEAN : Finish(debug)

Spec == Init /\ [][Next]_vars

----------------------------------------------------------------------------
(* Translations that run to their end *)

\* ops is nested well under the open constructs `open`: every block, loop
\* and conditional is closed by its own end, an else belongs to a
\* conditional that has none yet, and the last operator is the end that
\* closes the function body
RECURSIVE Nested(_, _)
Nested(ops, open) ==
    IF ops = <<>> THEN open = <<>>
    ELSE IF open = <<>> THEN FALSE
    ELSE CASE Head(ops) \in {"Block", "Loop", "If"} ->
                Nested(Tail(ops), Append(open, Head(ops)))
           [] Head(ops) = "Else" ->
                Last(open) = "If" /\ Nested(Tail(ops), Append(Front(open), "Else"))
           [] Head(ops) = "End" -> Nested(Tail(ops), Front(open))
           [] Head(ops) = "Bad" -> FALSE
           [] OTHER -> Nested(Tail(ops), open)

WellFormed(ops) == Nested(ops, <<"Function">>)

\* every well-nested stream of core operators up to MaxOps, and the further
\* streams, well nested or not
LoopInputs ==
    {Call(Code(FALSE, 0, <<>>, ops), NoOffset, Signature(<<>>, <<>>), "NormalReturns") :
        ops \in {o \in SeqsUpTo(CoreOps, MaxOps) : WellFormed(o)} \cup ExtraStreams}

NextLoop ==
    \/ Returned(trans) /\ calls < 1 /\ \E in \in LoopInputs : Translate(in)
    \/ \E debug \in BOOLEAN : ReadLocalCount(debug)
    \/ \E hb \in HookResults, ha \in HookResults : TranslateOperator(hb, ha)
    \/ \E debug \in BOOLEAN : Finish(debug)

\* a call that has started goes on until translate returns: translate runs
\* on the caller's thread and every step of it is taken
FairSpec ==
    /\ Init /\ [][NextLoop]_vars
    /\ WF_vars(\E debug \in BOOLEAN : ReadLocalCount(debug))
    /\ WF_vars(\E hb \in HookResults, ha \in HookResults : TranslateOperator(hb, ha))
    /\ WF_vars(\E debug \in BOOLEAN : Finish(debug))

\* every stream of core operators up to MaxRun, terminated or not, well
\* nested or not, and the further streams
TermInputs ==
    {Call(Code(FALSE, 0, <<>>, ops), NoOffset, Signature(<<>>, r), "NormalReturns") :
        ops \in SeqsUpTo(CoreOps, MaxRun) \cup ExtraStreams
                \cup {<<"Block", "Loop", "Const">>, <<"Const", "If", "Else">>},
        r \in Returns}

NextTerm ==
    \/ Returned(trans) /\ calls < 1 /\ \E in \in TermInputs : Translate(in)
    \/ \E debug \in BOOLEAN : ReadLocalCount(debug)
    \/ \E hb \in HookResults, ha \in HookResults : TranslateOperator(hb, ha)
    \/ \E debug \in BOOLEAN : Finish(debug)

\* as FairSpec, over streams of every shape
FairSpecTerm ==
    /\ Init /\ [][NextTerm]_vars
    /\ WF_vars(\E debug \in BOOLEAN : ReadLocalCount(debug))
    /\ WF_vars(\E hb \in HookResults, ha \in HookResults : TranslateOperator(hb, ha))
    /\ WF_vars(\E debug \in BOOLEAN : Finish(debug))

----------------------------------------------------------------------------
(* One FuncTranslator translating several functions in a row *)

\* the functions of the reuse runs: with parameters and locals, an endless
\* loop, an unsupported local type, the empty code slice, an explicit return
ReuseInputs ==
    {Call(Code(FALSE, 1, <<[count |-> 1, ty |-> "I32"]>>,
               <<"Const", "Block", "Const", "End", "End">>),
          NoOffset,
          Signature(<<[purpose |-> "Normal", value_type |-> "i32"]>>, <<"i32">>),
          "NormalReturns"),
     Call(Code(FALSE, 0, <<>>, <<"Loop", "Br", "End", "End">>),
          NoOffset,
          Signature(<<[purpose |-> "VMContext", value_type |-> "i64"],
                      [purpose |-> "Normal", value_type |-> "f64"]>>, <<>>),
          "FallthroughReturn"),
     Call(Code(FALSE, 2, <<[count |-> 2, ty |-> "F64"], [count |-> 1, ty |-> "V128"]>>,
               <<"End">>),
          NoOffset, Signature(<<>>, <<>>), "NormalReturns"),
     Call(Code(TRUE, 0, <<>>, <<>>), NoOffset, Signature(<<>>, <<>>), "NormalReturns"),
     Call(Code(FALSE, 0, <<>>, <<"Const", "Return", "End">>),
          NoOffset, Signature(<<>>, <<"i32">>), "FallthroughReturn")}

NextReuse ==
    \/ Returned(trans) /\ calls < MaxCalls /\ \E in \in ReuseInputs : Translate(in)
    \/ \E debug \in BOOLEAN : ReadLocalCount(debug)
    \/ \E debug \in BOOLEAN : ParseLocalDecl(debug)
    \/ \E hb \in HookResults, ha \in HookResults : TranslateOperator(hb, ha)
    \/ \E debug \in BOOLEAN : Finish(debug)

SpecReuse == Init /\ [][NextReuse]_vars

----------------------------------------------------------------------------
(* Translations of functions that declare locals *)

NextLocals ==
    \/ Returned(trans) /\ calls < 1 /\ \E in \in LocalsInputs : Translate(in)
    \/ \E debug \in BOOLEAN : ReadLocalCount(debug)
    \/ \E debug \in BOOLEAN : ParseLocalDecl(debug)
    \/ \E hb \in HookResults, ha \in HookResults : TranslateOperator(hb, ha)
    \/ \E debug \in BOOLEAN : Finish(debug)

SpecLocals == Init /\ [][NextLocals]_vars

----------------------------------------------------------------------------
(* Functions with about as many locals as there are identifiers *)

\* up to MaxParams normal parameters, then a group whose run length is
\* near IndexSpace and perhaps a second, short group
LimitInputs ==
    {Call(Code(FALSE, Len(decls), decls, <<"End">>), NoOffset,
          Signature([i \in 1..p |-> [purpose |-> "Normal", value_type |-> "i32"]], <<>>),
          "NormalReturns") :
        p \in 0..MaxParams,
        decls \in {<<[count |-> c, ty |-> "I32"]>> \o more :
                      c \in (IndexSpace - 3)..(IndexSpace + 1),
                      more \in SeqsUpTo([count : 0..MaxRun, ty : {"F64"}], 1)}}

NextLimit ==
    \/ Returned(trans) /\ calls < 1 /\ \E in \in LimitInputs : Translate(in)
    \/ \E debug \in BOOLEAN : ReadLocalCount(debug)
    \/ \E debug \in BOOLEAN : ParseLocalDecl(debug)
    \/ TranslateOperator("ok", "ok")
    \/ \E debug \in BOOLEAN : Finish(debug)

SpecLimit == Init /\ [][NextLimit]_vars

----------------------------------------------------------------------------
(* Code at some offset in its file *)

\* offsets whose additions carry into the next limb, pass 2^32 inside the
\* code or just after it, or begin beyond 2^32
CodeOffsets ==
    {NoOffset, Offset(0, 0, Limb - 2), Offset(0, 1, Limb - 4),
     Offset(0, Limb - 1, Limb - 3), Offset(0, Limb - 1, Limb - 5),
     Offset(0, Limb - 1, Limb - 9), Offset(1, 0, 0), Offset(1, Limb - 1, Limb - 2)}

OffsetDecls ==
    {<<>>, <<[count |-> 1, ty |-> "I32"]>>,
     <<[count |-> 1, ty |-> "F32"], [count |-> 0, ty |-> "I64"]>>}

OffsetStreams ==
    {<<"End">>, <<"Const", "End">>, <<"Block", "Const", "Br", "End", "End">>,
     <<"Const", "If", "Else", "End", "End">>, <<"Loop", "Br", "End", "End">>,
     <<"Const", "Bad">>, <<"Block", "Const">>}

OffsetInputs ==
    {Call(Code(FALSE, Len(decls), decls, ops), off, Signature(<<>>, <<>>), "NormalReturns") :
        decls \in OffsetDecls, ops \in OffsetStreams, off \in CodeOffsets}

NextOffsets ==
    \/ Returned(trans) /\ calls < 1 /\ \E in \in OffsetInputs : Translate(in)
    \/ \E debug \in BOOLEAN : ReadLocalCount(debug)
    \/ \E debug \in BOOLEAN : ParseLocalDecl(debug)
    \/ TranslateOperator("ok", "ok")
    \/ \E debug \in BOOLEAN : Finish(debug)

SpecOffsets == Init /\ [][NextOffsets]_vars

----------------------------------------------------------------------------
(* Functions with up to MaxParams results *)

SigReturns == SeqsUpTo({"i32", "f64"}, MaxParams)

ReturnStreams ==
    SeqsUpTo(CoreOps, MaxRun) \cup ExtraStreams
    \cup {<<"Const", "Const", "End">>,
          <<"Const", "Const", "Return", "End">>,
          <<"Const", "Const", "Br", "End">>,
          <<"Block", "Const", "Const", "Br", "End", "End">>}

ReturnsInputs ==
    {Call(Code(FALSE, 0, <<>>, ops), NoOffset, Signature(<<>>, r), m) :
        ops \in ReturnStreams, r \in SigReturns, m \in ReturnModes}

NextReturns ==
    \/ Returned(trans) /\ calls < 1 /\ \E in \in ReturnsInputs : Translate(in)
    \/ \E debug \in BOOLEAN : ReadLocalCount(debug)
    \/ TranslateOperator("ok", "ok")
    \/ \E debug \in BOOLEAN : Finish(debug)

SpecReturns == Init /\ [][NextReturns]_vars

----------------------------------------------------------------------------
(* Translations in which both hooks of the Environment succeed *)

NextHooksOk ==
    \/ Returned(trans) /\ calls < 1 /\ \E in \in LocalsInputs \cup ReturnsInputs : Translate(in)
    \/ \E debug \in BOOLEAN : ReadLocalCount(debug)
    \/ \E debug \in BOOLEAN : ParseLocalDecl(debug)
    \/ TranslateOperator("ok", "ok")
    \/ \E debug \in BOOLEAN : Finish(debug)

SpecHooksOk == Init /\ [][NextHooksOk]_vars


----------------------------------------------------------------------------
(* Properties of the decode loop, stated on the history of steps *)

LoopSteps ==
    {"read_operator", "before_translate_operator", "translate_operator",
     "after_translate_operator"}

\* entries the driver writes once the decode loop is over
FinalSteps == {"finalizer", "builder.finalize", "builder.is_pristine()", "reader.eof()"}

WasmErrors == {"InvalidWebAssembly", "Unsupported", "ImplLimitExceeded"}

\* the operators decoded so far, in the order they were decoded
DecodedOps(log) ==
    LET reads == SelectSeq(log, LAMBDA e : e.ev = "read_operator" /\ e.err = "ok")
    IN [i \in 1..Len(reads) |-> reads[i].op]

\* the entries of the log that belong to the decode loop
InLoop(log, i) ==
    \/ log[i].ev \in LoopSteps
    \/ log[i].ev = "set_srcloc" /\ \E j \in 1..(i - 1) : log[j].ev \in LoopSteps
    \/ log[i].ev = "set_srcloc" /\ i < Len(log) /\ log[i + 1].ev = "read_operator"

(* C2: an operator is decoded and dispatched only while the control stack  *)
(* is non-empty, nothing is decoded once the function-body frame has been  *)
(* popped, and the finalizer runs only with an empty control stack, once   *)
(* per successful translation.                                             *)
C2_LoopRunsWhileFramesRemain ==
    LET log == trans.log IN
    /\ \A i \in DOMAIN log :
         (InLoop(log, i) /\ log[i].ev # "after_translate_operator") => log[i].depth > 0
    /\ \A i \in DOMAIN log :
         log[i].depth = 0 => \A j \in (i + 1)..Len(log) : log[j].ev \in FinalSteps
    /\ \A i \in DOMAIN log :
         log[i].ev = "finalizer" =>
            /\ log[i].depth = 0
            /\ \A j \in DOMAIN log : log[j].ev = "finalizer" => j = i
    /\ trans.pc = "done" => \E i \in DOMAIN log : log[i].ev = "finalizer"
    /\ (trans.pc = "loop" /\ ~loop_continues(trans)) =>
          (log # <<>> /\ Last(log).depth = 0)

C2_Witness ==
    /\ trans.pc = "done"
    /\ \E i \in DOMAIN trans.log : trans.log[i].depth = 2
    /\ \E i \in DOMAIN trans.log : trans.log[i].ev = "finalizer"

(* C3: for every operator the source location is recorded, then the        *)
(* operator is decoded, then the before hook, the Operator Translator and  *)
(* the after hook are invoked with it, each once and in this order; the    *)
(* next operator starts only after the after hook, and the end that        *)
(* empties the control stack gets its after hook too.                      *)
StepFollows(a, b) ==
    CASE a.err # "ok" -> FALSE
      [] a.ev = "read_operator" -> b.ev = "before_translate_operator" /\ b.op = a.op
      [] a.ev = "before_translate_operator" -> b.ev = "translate_operator" /\ b.op = a.op
      [] a.ev = "translate_operator" -> b.ev = "after_translate_operator" /\ b.op = a.op
      [] a.ev = "after_translate_operator" ->
            IF a.depth > 0 THEN b.ev = "set_srcloc" ELSE b.ev \in FinalSteps
      [] OTHER -> TRUE

StepPrecedes(a, b) ==
    CASE b.ev = "read_operator" -> a.ev = "set_srcloc"
      [] b.ev = "before_translate_operator" ->
            a.ev = "read_operator" /\ a.err = "ok" /\ a.op = b.op
      [] b.ev = "translate_operator" ->
            a.ev = "before_translate_operator" /\ a.err = "ok" /\ a.op = b.op
      [] b.ev = "after_translate_operator" ->
            a.ev = "translate_operator" /\ a.err = "ok" /\ a.op = b.op
      [] OTHER -> TRUE

C3_StepsOfAnOperatorInOrder ==
    LET log == trans.log IN
    /\ \A i \in 1..(Len(log) - 1) :
         InLoop(log, i) => (StepFollows(log[i], log[i + 1]) /\ StepPrecedes(log[i], log[i + 1]))
    /\ \A i \in 1..(Len(log) - 1) :
         (InLoop(log, i) /\ log[i].ev = "set_srcloc") => log[i + 1].ev = "read_operator"
    /\ DecodedOps(log) = SubSeq(input.code.ops, 1, trans.reader.idx)
    \* no round stops half way unless a step failed
    /\ (log # <<>> /\ InLoop(log, Len(log)) /\ Last(log).err = "ok") =>
          Last(log).ev = "after_translate_operator"
    /\ trans.pc = "done" =>
          \E i \in DOMAIN log :
             /\ log[i].ev = "after_translate_operator" /\ log[i].err = "ok"
             /\ log[i].depth = 0 /\ log[i].op = Last(DecodedOps(log))

C3_Witness ==
    /\ trans.pc = "done"
    /\ Len(DecodedOps(trans.log)) >= 3
    /\ \E i \in DOMAIN trans.log :
          /\ trans.log[i].ev = "after_translate_operator"
          /\ trans.log[i].op = "End" /\ trans.log[i].depth = 0

(* C4: a failing step ends the translation at once: translate returns the  *)
(* error of that step, no later step and no later operator is executed, no *)
(* implicit return is synthesized and builder.finalize is not called.      *)
C4_ErrorsPropagateAtOnce ==
    LET log == trans.log IN
    /\ \A i \in DOMAIN log :
         log[i].err # "ok" =>
            /\ i = Len(log)
            /\ trans.pc \in {"error", "panic"}
            /\ trans.result = log[i].err
    /\ trans.pc = "error" =>
         /\ log # <<>>
         /\ Last(log).err = trans.result
         /\ trans.result \in WasmErrors
         /\ ~trans.finalized
         /\ \A i \in DOMAIN log : log[i].ev \notin FinalSteps
         /\ \A e \in DOMAIN trans.func.ebbs : \A k \in DOMAIN trans.func.ebbs[e].insts :
               trans.func.ebbs[e].insts[k].op # "fallthrough_return"

C4_Witness ==
    /\ trans.pc = "error"
    /\ trans.result = "ImplLimitExceeded"
    /\ Last(trans.log).ev = "after_translate_operator"
    /\ Last(trans.log).op = "End"
    /\ trans.state.control_stack = <<>>
    /\ trans.state.reachable
    /\ trans.reader.idx < Len(input.code.ops)


----------------------------------------------------------------------------
(* Properties of the finalizer, stated on the function it leaves behind.   *)
(* pre is the translation when the decode loop was left, trans the         *)
(* translation when translate returned.                                    *)

ReturnLike == {"return", "fallthrough_return"}

\* the block created for the function's exit (the last one of the setup)
ExitBlock == last_ebb(translate_from_reader_setup(FuncTranslator_new, input))

\* some instruction emitted so far transfers control to block e
HasIncoming(f, e) ==
    \E b \in DOMAIN f.ebbs : \E k \in DOMAIN f.ebbs[b].insts :
        f.ebbs[b].insts[k].dest = e

\* the instructions block e has in `after` beyond those it has in `before`
Appended(before, after, e) ==
    SubSeq(after.func.ebbs[e].insts, Len(before.func.ebbs[e].insts) + 1,
           Len(after.func.ebbs[e].insts))

\* what the finalizer added to the function
FinalizerEmitted == Appended(pre, trans, pre.position)

\* the finalizer touched nothing but the end of the block it ran in
OnlyAppended ==
    /\ DOMAIN trans.func.ebbs = DOMAIN pre.func.ebbs
    /\ \A b \in DOMAIN pre.func.ebbs :
          /\ trans.func.ebbs[b].params = pre.func.ebbs[b].params
          /\ SubSeq(trans.func.ebbs[b].insts, 1, Len(pre.func.ebbs[b].insts))
                = pre.func.ebbs[b].insts
          /\ b # pre.position => trans.func.ebbs[b].insts = pre.func.ebbs[b].insts

(* C6: when translate succeeds, the finalizer has added exactly one        *)
(* return-like instruction whose operands are the values left on the value *)
(* stack, in stack order, if control can arrive at the exit block (some    *)
(* emitted jump or branch targets it); if no control transfer reaches the  *)
(* exit block (an endless loop, a trap, or explicit returns on every path) *)
(* it has added no instruction at all.                                     *)
C6_ImplicitReturnIffExitReached ==
    trans.pc = "done" =>
        /\ OnlyAppended
        /\ IF HasIncoming(pre.func, ExitBlock)
           THEN /\ pre.state.reachable
                /\ pre.position = ExitBlock
                /\ Len(FinalizerEmitted) = 1
                /\ FinalizerEmitted[1].op \in ReturnLike
                /\ FinalizerEmitted[1].args = pre.state.stack
                /\ Len(FinalizerEmitted[1].args) = Len(input.func.signature.returns)
           ELSE /\ FinalizerEmitted = <<>>
                /\ trans.func = pre.func

C6_Witness ==
    /\ trans.pc = "done"
    /\ input.environ.return_mode = "NormalReturns"
    /\ input.func.signature.returns # <<>>
    /\ pre.state.reachable
    /\ FinalizerEmitted = <<>>
    /\ \E k \in DOMAIN trans.func.ebbs[1].insts :
          /\ trans.func.ebbs[1].insts[k].op = "return"
          /\ Len(trans.func.ebbs[1].insts[k].args) = 1

(* C7: the instruction the finalizer adds is `return` when the environment *)
(* reports NormalReturns and `fallthrough_return` when it reports          *)
(* FallthroughReturn; either way it is the last instruction of the exit    *)
(* block and takes the values of the value stack.                          *)
C7_ReturnModeSelectsInstruction ==
    (trans.pc = "done" /\ FinalizerEmitted # <<>>) =>
        LET exit == trans.func.ebbs[ExitBlock].insts
            kind == IF input.environ.return_mode = "NormalReturns"
                    THEN "return" ELSE "fallthrough_return"
        IN /\ pre.position = ExitBlock
           /\ exit # <<>>
           /\ Last(exit) = Last(FinalizerEmitted)
           /\ Last(exit).op = kind
           /\ Last(exit).args = pre.state.stack
           /\ \A k \in 1..(Len(exit) - 1) : exit[k].op \notin ReturnLike

C7_Witness ==
    /\ trans.pc = "done"
    /\ input.environ.return_mode = "FallthroughReturn"
    /\ Len(trans.func.ebbs[ExitBlock].insts) = 1
    /\ Last(trans.func.ebbs[ExitBlock].insts).op = "fallthrough_return"
    /\ Len(Last(trans.func.ebbs[ExitBlock].insts).args) = 1


----------------------------------------------------------------------------
(* Properties of the locals, stated on the builder context when the decode *)
(* loop is about to take its first operator.                               *)

LoopStarts == trans.pc = "loop" /\ trans.reader.idx = 0

\* positions of the normal-purpose parameters in the signature
NormalPositions(params) ==
    SelectSeq([i \in 1..Len(params) |-> i], LAMBDA i : params[i].purpose = "Normal")

\* the type of every declared local, group after group
RECURSIVE FlatLocals(_)
FlatLocals(decls) ==
    IF decls = <<>> THEN <<>>
    ELSE [k \in 1..Head(decls).count |-> Head(decls).ty] \o FlatLocals(Tail(decls))

\* the groups the local count announces
DeclaredLocals == FlatLocals(SubSeq(input.code.decls, 1, input.code.local_count))

IrType(wasm_type) ==
    CASE wasm_type = "I32" -> "i32" [] wasm_type = "I64" -> "i64"
      [] wasm_type = "F32" -> "f32" [] wasm_type = "F64" -> "f64"

\* the instruction that defines zero in a type: integer 0, or +0.0 as bits
ZeroConstant(ty) ==
    [op |-> IF ty \in {"i32", "i64"} THEN "iconst"
            ELSE IF ty = "f32" THEN "f32const" ELSE "f64const",
     ty |-> ty, imm |-> 0]

(* C8: when the decode loop starts, each declared local has the type of    *)
(* its group and is bound to a value defined by the zero constant of that  *)
(* type.                                                                   *)
C8_LocalsStartAtZero ==
    LoopStarts =>
        LET P == Len(NormalPositions(input.func.signature.params)) IN
        \A k \in 1..Len(DeclaredLocals) :
            LET local == P + k - 1
                ty == IrType(DeclaredLocals[k])
            IN /\ local \in DOMAIN trans.func_ctx.types
               /\ trans.func_ctx.types[local] = ty
               /\ local \in DOMAIN trans.func_ctx.defs
               /\ trans.func_ctx.defs[local].def = "result"
               /\ value_def(trans, trans.func_ctx.defs[local]) = ZeroConstant(ty)

C8_Witness ==
    /\ LoopStarts
    /\ Len(NormalPositions(input.func.signature.params)) >= 1
    /\ Len(DeclaredLocals) >= 3
    /\ \E k \in DOMAIN DeclaredLocals : DeclaredLocals[k] = "F32"
    /\ \E k \in DOMAIN DeclaredLocals : DeclaredLocals[k] = "I64"

(* C9: when the decode loop starts, the locals declared are 0..P+D-1, each *)
(* declared once and in increasing order: first the P normal parameters in *)
(* signature order, then the D declared locals in declaration order.       *)
C9_LocalIndicesAreDense ==
    LoopStarts =>
        LET params == input.func.signature.params
            normal == NormalPositions(params)
            P == Len(normal)
            D == Len(DeclaredLocals)
            decl == trans.decl_log
        IN /\ Len(decl) = P + D
           /\ \A i \in 1..(P + D) : decl[i].var = i - 1
           /\ \A k \in 1..P : decl[k].ty = params[normal[k]].value_type
           /\ \A k \in 1..D : decl[P + k].ty = IrType(DeclaredLocals[k])
           /\ DOMAIN trans.func_ctx.types = 0..(P + D - 1)
           /\ DOMAIN trans.func_ctx.defs = 0..(P + D - 1)
           /\ trans.next_local = P + D

C9_Witness ==
    /\ LoopStarts
    /\ Len(input.func.signature.params) > Len(NormalPositions(input.func.signature.params))
    /\ Len(NormalPositions(input.func.signature.params)) >= 1
    /\ input.code.local_count = 2
    /\ Len(DeclaredLocals) >= 3

(* C10: once a translation is set up, the k-th normal parameter (from 0)   *)
(* is local k, of the parameter's type and bound to the entry block's      *)
(* parameter at the same position as in the signature; the other           *)
(* parameters have no local, and the value labels given to block           *)
(* parameters are the vmctx label on each VMContext parameter.             *)
C10_ParametersBecomeLocals ==
    trans.pc # "idle" =>
        LET params == input.func.signature.params
            normal == NormalPositions(params)
            P == Len(normal)
            entry_block == trans.func.layout[1]
            labelled == SelectSeq(trans.func.val_labels, LAMBDA l : l.value.def = "param")
            vmctx == SelectSeq([i \in 1..Len(params) |-> i],
                               LAMBDA i : params[i].purpose = "VMContext")
        IN /\ trans.num_params = P
           /\ Len(trans.decl_log) >= P
           /\ \A k \in 1..P :
                 /\ trans.decl_log[k] = [var |-> k - 1, ty |-> params[normal[k]].value_type]
                 /\ trans.func_ctx.types[k - 1] = params[normal[k]].value_type
                 /\ trans.func_ctx.defs[k - 1] = ParamValue(entry_block, normal[k])
           /\ \A v \in DOMAIN trans.func_ctx.defs :
                 trans.func_ctx.defs[v].def = "param" => v < P
           /\ [j \in 1..Len(labelled) |->
                  [value |-> labelled[j].value, label |-> labelled[j].label]]
                = [j \in 1..Len(vmctx) |->
                     [value |-> ParamValue(entry_block, vmctx[j]), label |-> VmctxLabel]]

C10_Witness ==
    /\ trans.pc = "loop"
    /\ Len(input.func.signature.params) = 2
    /\ input.func.signature.params[1].purpose = "VMContext"
    /\ input.func.signature.params[2].purpose = "Normal"
    /\ trans.func_ctx.defs[0] = ParamValue(1, 2)
    /\ Len(trans.func.val_labels) >= 1


----------------------------------------------------------------------------
(* C5: whatever the calls before it left behind, a call on the reused      *)
(* FuncTranslator goes through the same states and produces the same       *)
(* function, result, builder context and translation state as the same     *)
(* call on a FuncTranslator made by FuncTranslator::new.                   *)
C5_ReuseEqualsFresh ==
    calls >= 1 =>
        /\ trans.func = fresh.func
        /\ trans.result = fresh.result
        /\ trans.pc = fresh.pc
        /\ trans.func_ctx = fresh.func_ctx
        /\ trans.state = fresh.state

\* the second call succeeded after a call that failed half way through a
\* function, leaving control frames, values and declared variables behind
C5_Witness ==
    /\ calls = 2
    /\ trans.pc = "done"
    /\ left.pc = "error"
    /\ Len(left.state.control_stack) >= 2
    /\ left.state.stack # <<>>
    /\ left.func_ctx.types # NoFn
    /\ Len(trans.func.ebbs) >= 3


----------------------------------------------------------------------------
(* Termination of the decode loop on well-nested operator streams *)

\* the decode loop has been entered in the current call
LoopEntered ==
    \/ trans.pc \in {"loop", "done"}
    \/ trans.pc = "error" /\ Last(trans.log).ev \in LoopSteps

\* the while condition is found false
LoopExits == trans.pc = "loop" /\ trans.state.control_stack = <<>>

\* the loop is abandoned because a hook or the Operator Translator failed
LoopAbandoned ==
    /\ trans.pc = "error"
    /\ Last(trans.log).ev \in LoopSteps \ {"read_operator"}

----------------------------------------------------------------------------
(* Local declarations of a type without a zero constant *)

SupportedLocalTypes == {"I32", "I64", "F32", "F64"}

\* the function as the setup of the call left it: the entry block with its
\* parameters and the exit block with its parameters
Scaffold == translate_from_reader_setup(FuncTranslator_new, input).func

\* the local-declaration groups the reader has delivered so far
GroupsRead ==
    SelectSeq(trans.log, LAMBDA e : e.ev = "read_local_decl" /\ e.err = "ok")

\* a group of a type without a zero constant has been delivered
UnsupportedGroupRead ==
    calls >= 1 /\ \E i \in DOMAIN GroupsRead : GroupsRead[i].op \notin SupportedLocalTypes

\* [op, ty, imm] of every instruction of a block
InstKinds(f, e) ==
    [k \in 1..Len(f.ebbs[e].insts) |->
        [op |-> f.ebbs[e].insts[k].op, ty |-> f.ebbs[e].insts[k].ty,
         imm |-> f.ebbs[e].insts[k].imm]]

UnsupportedFails ==
    /\ trans.pc = "error"
    /\ trans.result = "Unsupported"
    /\ Last(trans.log).ev = "declare_locals"
    /\ Last(trans.log).op \notin SupportedLocalTypes
    /\ Last(GroupsRead).op = Last(trans.log).op
    /\ trans.reader.idx = 0
    /\ \A i \in DOMAIN trans.log : trans.log[i].ev \notin LoopSteps

(* C11 as stated: once a group of an unsupported type is declared,         *)
(* translate has failed with Unsupported, no operator was decoded and the  *)
(* function is the scaffold of entry and exit block, whatever groups came  *)
(* before.                                                                 *)
C11_AsStated ==
    UnsupportedGroupRead => (UnsupportedFails /\ trans.func = Scaffold)

(* C11 amended: once a group of an unsupported type is declared, translate *)
(* has failed with Unsupported and no operator was decoded; the function   *)
(* is the scaffold plus, in the entry block, the zero constant of every    *)
(* supported group read before it (with the value labels of its locals),   *)
(* and the unsupported group itself has added nothing.                     *)
C11_UnsupportedLocalType ==
    UnsupportedGroupRead =>
        LET k == Len(GroupsRead)
            before == SubSeq(input.code.decls, 1, k - 1)
            entry_block == Scaffold.layout[1]
            P == Len(NormalPositions(input.func.signature.params))
        IN /\ UnsupportedFails
           /\ \A j \in 1..(k - 1) : before[j].ty \in SupportedLocalTypes
           /\ trans.func.signature = Scaffold.signature
           /\ trans.func.layout = Scaffold.layout
           /\ DOMAIN trans.func.ebbs = DOMAIN Scaffold.ebbs
           /\ \A e \in DOMAIN Scaffold.ebbs :
                 /\ trans.func.ebbs[e].params = Scaffold.ebbs[e].params
                 /\ e # entry_block => trans.func.ebbs[e].insts = <<>>
           /\ InstKinds(trans.func, entry_block)
                 = [j \in 1..(k - 1) |-> ZeroConstant(IrType(before[j].ty))]
           /\ Len(trans.func.val_labels)
                 = Len(Scaffold.val_labels) + Len(FlatLocals(before))
           /\ Len(trans.decl_log) = P + Len(FlatLocals(before))

C11_Witness ==
    /\ UnsupportedGroupRead
    /\ trans.pc = "error"
    /\ Len(GroupsRead) = 2
    /\ input.code.decls[1].count >= 1
    /\ input.code.decls[1].ty \in SupportedLocalTypes
    /\ Len(trans.func.ebbs[1].insts) = 1


----------------------------------------------------------------------------
(* The entry block *)

EntryBlock == Scaffold.layout[1]

\* the steps of the setup of the current call
Setup == translate_from_reader_steps(left, input)

\* position of the first step of that name in the steps s
SetupStep(s, step) ==
    CHOOSE i \in DOMAIN s :
        /\ s[i].step = step
        /\ \A j \in 1..(i - 1) : s[j].step # step

SetupHas(s, step) == \E i \in DOMAIN s : s[i].step = step

(* C12: in the setup of a call the entry block is created, given its       *)
(* parameters, made the insertion point and sealed at once, with no        *)
(* variable declared yet, and it is in the layout before the parameters    *)
(* are bound; the hooks and the decoding come after the setup.  From then  *)
(* on the entry block is sealed, in the layout, and no instruction jumps   *)
(* or branches to it.                                                      *)
C12_EntryBlockSealedAtOnce ==
    calls >= 1 =>
        LET s == Setup
            create == SetupStep(s, "create_ebb")
            switch == SetupStep(s, "switch_to_block")
            seal == SetupStep(s, "seal_block")
            insert == SetupStep(s, "ensure_inserted_ebb")
            declare == SetupStep(s, "declare_wasm_parameters")
            entry_block == last_ebb(s[create].t)
        IN /\ SetupHas(s, "seal_block") /\ SetupHas(s, "switch_to_block")
           /\ SetupHas(s, "ensure_inserted_ebb") /\ SetupHas(s, "declare_wasm_parameters")
           /\ create + 2 = switch
           /\ seal = switch + 1
           /\ s[switch].t.position = entry_block
           /\ s[seal].t.decl_log = <<>>
           /\ \A j \in DOMAIN s : j >= seal => entry_block \in s[j].t.func_ctx.sealed
           /\ seal < insert
           /\ insert < declare
           /\ s[insert].t.func.layout = <<entry_block>>
           /\ s[insert].t.decl_log = <<>>
           /\ Len(s[declare].t.decl_log) = Len(NormalPositions(input.func.signature.params))
           /\ \A j \in DOMAIN s : s[j].t.log = <<>>
           /\ trans.pc = "parse_local_decls" =>
                 trans = [Last(s).t EXCEPT !.pc = "parse_local_decls"]
           /\ entry_block \in trans.func_ctx.sealed
           /\ InLayout(trans, entry_block)
           /\ trans.func.layout[1] = entry_block
           /\ Preds(trans, entry_block) = 0
           /\ ~HasIncoming(trans.func, entry_block)

\* a loop with a branch back to its header has been translated
C12_Witness ==
    /\ trans.pc = "done"
    /\ \E e \in DOMAIN trans.func.ebbs :
          /\ e # EntryBlock
          /\ Preds(trans, e) = 2
          /\ \E k \in DOMAIN trans.func.ebbs[e].insts : trans.func.ebbs[e].insts[k].dest = e
    /\ EntryBlock \in trans.func_ctx.sealed
    /\ Preds(trans, EntryBlock) = 0


----------------------------------------------------------------------------
(* The exit block *)

(* C13: from the setup on, the exit block has one parameter per return of  *)
(* the signature, of the same types in the same order, whatever is         *)
(* translated afterwards; when the decode loop starts the only control     *)
(* frame is the one of the function body, with the exit block as its       *)
(* merge point and as many results as the signature has returns, and that  *)
(* frame stays at the bottom of the control stack.                         *)
C13_ExitBlockCarriesReturns ==
    calls >= 1 =>
        /\ ExitBlock \in DOMAIN trans.func.ebbs
        /\ ExitBlock # trans.func.layout[1]
        /\ trans.func.ebbs[ExitBlock].params = input.func.signature.returns
        /\ LET s == Setup
               returns == SetupStep(s, "append_ebb_params_for_function_returns")
           IN /\ SetupHas(s, "append_ebb_params_for_function_returns")
              /\ s[returns - 1].step = "create_ebb"
              /\ last_ebb(s[returns - 1].t) = ExitBlock
        /\ LoopStarts =>
              /\ Len(trans.state.control_stack) = 1
              /\ following_code(trans.state.control_stack[1]) = ExitBlock
              /\ trans.state.control_stack[1].num_return_values
                    = Len(input.func.signature.returns)
        /\ (trans.pc = "loop" /\ trans.state.control_stack # <<>>) =>
              following_code(trans.state.control_stack[1]) = ExitBlock

\* a function with two results of different types has been translated and
\* jumps to its exit block
C13_Witness ==
    /\ trans.pc = "done"
    /\ input.func.signature.returns = <<"i32", "f64">>
    /\ trans.func.ebbs[ExitBlock].params = <<"i32", "f64">>
    /\ HasIncoming(trans.func, ExitBlock)
    /\ Len(trans.log) > 6


----------------------------------------------------------------------------
(* The value stack after the decode loop *)

FinalizerRan == \E i \in DOMAIN trans.log : trans.log[i].ev = "finalizer"

(* C14: once the finalizer has run the value stack is empty, whether or    *)
(* not a return was synthesized and whatever the translation left on the   *)
(* stack; in particular it is empty after every successful translation.    *)
C14_StackClearedByFinalizer ==
    /\ FinalizerRan => trans.state.stack = <<>>
    /\ trans.pc = "done" => FinalizerRan

\* the translation left values on the stack and no return was synthesized
C14_Witness ==
    /\ trans.pc = "done"
    /\ pre.state.stack # <<>>
    /\ FinalizerEmitted = <<>>
    /\ trans.state.stack = <<>>


----------------------------------------------------------------------------
(* The end of the code *)

(* C15: whenever the decode loop is left because the control stack is      *)
(* empty, the reader is at the end of the code, so the assertion of line   *)
(* 234 never fails, whatever bytes the function body holds.                *)
C15_EofWhenLoopExits ==
    /\ (trans.pc = "loop" /\ ~loop_continues(trans)) => reader_eof(input, trans)
    /\ ~(trans.pc = "panic" /\ trans.result = "reader.eof()")


----------------------------------------------------------------------------
(* The state at the start of parse_function_body *)

BodyNotEntered == trans.pc \in {"parse_local_decls", "local_decl"} \/ LoopStarts

(* C16: in every call, the first one and one that follows a successful or  *)
(* an aborted call alike, from the setup until the first operator is       *)
(* decoded the value stack is empty, the control stack holds exactly the   *)
(* frame of the function body, whose merge point is the exit block, and    *)
(* the code is reachable; the assertion of line 204 never fails.           *)
C16_StateInitializedAtLoopStart ==
    /\ (calls >= 1 /\ BodyNotEntered) =>
          /\ trans.state.stack = <<>>
          /\ Len(trans.state.control_stack) = 1
          /\ trans.state.control_stack[1].kind = "Block"
          /\ following_code(trans.state.control_stack[1]) = ExitBlock
          /\ trans.state.control_stack[1].original_stack_size = 0
          /\ trans.state.reachable
    /\ \A i \in DOMAIN trans.log : trans.log[i].ev # "State not initialized"

\* the decode loop of a call starts after a call that was aborted with
\* frames on the control stack and values on the value stack
C16_Witness ==
    /\ calls = 2
    /\ LoopStarts
    /\ left.pc = "error"
    /\ Len(left.state.control_stack) > 1
    /\ left.state.stack # <<>>


----------------------------------------------------------------------------
(* Termination *)

Ended == trans.pc \in {"done", "error", "panic"}

(* C17: every call of translate ends, with a result or a failed            *)
(* assertion: every round of the decode loop moves the reader forward by   *)
(* at least one byte or ends the call with an error, the reader never      *)
(* passes the end of the code, and a round that finds the reader at the    *)
(* end of the code while frames remain ends the call with a decode error.  *)
C17_TranslateTerminates ==
    /\ (calls >= 1) ~> Ended
    /\ [][(trans.pc = "loop" /\ loop_continues(trans)) =>
            \/ trans'.reader.pos > trans.reader.pos /\ trans'.reader.idx = trans.reader.idx + 1
            \/ trans'.pc = "error"]_vars
    /\ [][(trans.pc = "loop" /\ loop_continues(trans) /\ reader_eof(input, trans)) =>
            /\ trans'.pc = "error"
            /\ trans'.result = "InvalidWebAssembly"
            /\ Last(trans'.log).ev = "read_operator"]_vars
    /\ [](trans.reader.pos <= CodeSize(input.code))

\* the code ended inside a block after operators had been translated
C17_Witness ==
    /\ trans.pc = "error"
    /\ Last(trans.log).ev = "read_operator"
    /\ Last(trans.log).op = "eof"
    /\ trans.reader.idx >= 2
    /\ Len(trans.state.control_stack) >= 2


----------------------------------------------------------------------------
(* More locals than identifiers *)

TotalLocals == Len(NormalPositions(input.func.signature.params)) + Len(DeclaredLocals)

C18_Wrapped ==
    /\ trans.pc = "done"
    /\ TotalLocals > IndexSpace
    /\ \E i, j \in DOMAIN trans.decl_log :
          i # j /\ trans.decl_log[i].var = trans.decl_log[j].var

C18_Asserted ==
    /\ trans.pc = "panic"
    /\ Last(trans.log).ev = "Variable::new"
    /\ TotalLocals > IndexSpace


----------------------------------------------------------------------------
(* Source locations *)

\* the source locations set before a group or an operator, in order
Recorded == SelectSeq(trans.log, LAMBDA e : e.ev = "set_srcloc")

\* the offset in the code of the n-th item that is given a source location:
\* the groups the local count announces, then the operators
ItemPosition(n) ==
    LET G == input.code.local_count IN
    IF n <= G THEN 1 + 2 * (n - 1)
    ELSE 1 + 2 * G + OpsSize(SubSeq(input.code.ops, 1, n - G - 1))

RecordedAtItems ==
    \A n \in DOMAIN Recorded :
        Recorded[n].srcloc = as_u32(offset_add(input.code_offset, ItemPosition(n)))

NonDecreasing ==
    \A i, j \in DOMAIN Recorded : i <= j => u32_le(Recorded[i].srcloc, Recorded[j].srcloc)

\* no item that is given a source location lies at or beyond the next
\* multiple of 2^32 after code_offset
NoWrap ==
    \A n \in DOMAIN Recorded :
        offset_add(input.code_offset, ItemPosition(n)).l2 = input.code_offset.l2

(* C19 as stated: every source location set before a group or an operator *)
(* is the item's offset in the file modulo 2^32, and the source locations  *)
(* of one translation never decrease.                                      *)
C19_AsStated == RecordedAtItems /\ NonDecreasing

(* C19 amended: every source location set before a group or an operator    *)
(* is the item's offset in the file modulo 2^32, and the source locations  *)
(* of one translation never decrease as long as the offsets of its items   *)
(* do not pass a multiple of 2^32.                                         *)
C19_SourceLocations == RecordedAtItems /\ (NoWrap => NonDecreasing)

\* groups and operators were located in code whose offsets carry from one
\* limb into the next without passing 2^32
C19_Witness ==
    /\ trans.pc = "done"
    /\ NoWrap
    /\ Len(Recorded) >= 6
    /\ input.code.local_count = 2
    /\ Recorded[1].srcloc.l1 < Recorded[Len(Recorded)].srcloc.l1
    /\ input.code_offset.l1 = 1

\* the offsets passed 2^32 inside the code
C19_Wrapped ==
    /\ trans.pc = "done"
    /\ ~NoWrap
    /\ ~NonDecreasing


====
